---- MODULE Spec2Model ----
(***************************************************************************)
(* Model of gwaybio/mitocheck_data:                                        *)
(*   - the extraction driver loop of 1.idr_streams/streams/dp_streams.py   *)
(*   - get_class_colors and the class-coloured show_{1,2,3}D_umap          *)
(*     functions of utils/analysis_utils.py                                *)
(***************************************************************************)
EXTENDS Integers, Sequences, FiniteSets, TLC

VARIABLES
    \* ---- extraction driver (dp_streams.py) ----
    entries,              \* names of the entries of locations_dir
    todo,                 \* entries the for loop has still to visit, in order
    data_locations_path,  \* loop variable: the entry being processed
    data_name,            \* name derived from the entry
    pc,                   \* statement the driver is about to execute
    tmp_dir,              \* state of the directory tmp/
    log_files,            \* data name -> state of logs/<data name>/dp_idrstream.log
    rmtree_error,         \* shutil.rmtree met (and ignored) an error in this iteration
    calls,                \* history: every step executed, in order
    run_calls,            \* history: the arguments of every run_dp_stream call
    \* ---- show_1D_umap / show_2D_umap / show_3D_umap (analysis_utils.py) ----
    fn,                   \* which of the three functions is running
    metadata_series,      \* the label of every point, by row
    class_colors,         \* the class -> colour dict passed in
    classes,              \* distinct labels the loop has still to visit
    legend_elements,      \* the list of legend handles
    other_classes_exist,  \* the flag of the same name
    color,                \* the loop's local variable of the same name
    scatters,             \* history: every ax.scatter call
    legend,               \* the handles given to plt.legend
    upc,                  \* statement the function is about to execute
    \* ---- get_class_colors (analysis_utils.py) ----
    classes_list,         \* argument
    cmap,                 \* the palette's colours
    index,                \* enumerate's counter
    colors_dict,          \* the local dict class_colors
    cpc                   \* statement get_class_colors is about to execute

driver_vars == <<entries, todo, data_locations_path, data_name, pc, tmp_dir,
                 log_files, rmtree_error, calls, run_calls>>

umap_vars == <<fn, metadata_series, class_colors, classes, legend_elements,
               other_classes_exist, color, scatters, legend, upc>>

colors_vars == <<classes_list, cmap, index, colors_dict, cpc>>

vars == <<driver_vars, umap_vars, colors_vars>>

(***************************************************************************)
(* Bounds                                                                  *)
(***************************************************************************)
\* largest number of entries in locations_dir
MaxEntries == 3

\* largest number of points (rows of the metadata)
MaxPoints == 3

\* largest number of class names given to get_class_colors
MaxClasses == 3

(***************************************************************************)
(* Strings                                                                 *)
(***************************************************************************)
\* the characters of the file names below, in code point order
CharOrder == "._abcdefghijklmnopqrstuvwxyz"

Ord(c) == CHOOSE i \in 1..Len(CharOrder) : SubSeq(CharOrder, i, i) = c

\* Python's str.__lt__: lexicographic by code point, a proper prefix is smaller
RECURSIVE StrLess(_, _)
StrLess(a, b) ==
    IF Len(b) = 0 THEN FALSE
    ELSE IF Len(a) = 0 THEN TRUE
    ELSE LET ca == Ord(SubSeq(a, 1, 1))
             cb == Ord(SubSeq(b, 1, 1))
         IN  IF ca # cb THEN ca < cb
             ELSE StrLess(SubSeq(a, 2, Len(a)), SubSeq(b, 2, Len(b)))

\* Python's str.replace(old, new): every non-overlapping occurrence, left to right
RECURSIVE replace(_, _, _)
replace(s, old, new) ==
    IF Len(s) < Len(old) THEN s
    ELSE IF SubSeq(s, 1, Len(old)) = old
         THEN new \o replace(SubSeq(s, Len(old) + 1, Len(s)), old, new)
         ELSE SubSeq(s, 1, 1) \o replace(SubSeq(s, 2, Len(s)), old, new)

\* str.replace(old, new, 1): only the first occurrence
RECURSIVE replace_first(_, _, _)
replace_first(s, old, new) ==
    IF Len(s) < Len(old) THEN s
    ELSE IF SubSeq(s, 1, Len(old)) = old
         THEN new \o SubSeq(s, Len(old) + 1, Len(s))
         ELSE SubSeq(s, 1, 1) \o replace_first(SubSeq(s, 2, Len(s)), old, new)

\* sorted(iterable, reverse=True)
RECURSIVE sorted_reverse(_)
sorted_reverse(S) ==
    IF S = {} THEN <<>>
    ELSE LET m == CHOOSE x \in S : \A y \in S \ {x} : StrLess(y, x)
         IN  <<m>> \o sorted_reverse(S \ {m})

\* sorted(iterable): ascending
RECURSIVE sorted(_)
sorted(S) ==
    IF S = {} THEN <<>>
    ELSE LET m == CHOOSE x \in S : \A y \in S \ {x} : StrLess(x, y)
         IN  <<m>> \o sorted(S \ {m})

(***************************************************************************)
(* Extraction driver                                                       *)
(***************************************************************************)
\* file names locations_dir may hold
FileNames ==
    { ".gitkeep",
      "negative_control_locations.tsv",
      "positive_control_locations.tsv",
      "training_locations.tsv",
      "training_locations.tsv.bak",
      "x_locations.tsv_locations.tsv" }

\* name.replace("_locations.tsv", "_data", 1)
DeriveNameFirstOnly(name) == replace_first(name, "_locations.tsv", "_data")

\* line 39
DeriveName(name) == replace(name, "_locations.tsv", "_data")

\* if data_name != "training_data"
IsTrainingInverted(name) == name # "training_data"

\* line 81
IsTraining(name) == name = "training_data"

batch_size == 3
start_batch == 0
batch_num == 0

\* A path of the file system is "absent", "stale" (left by an earlier iteration
\* or invocation) or "fresh" (created during the current iteration).

\* at the start of an iteration whatever exists was left by earlier work
Age(st) == IF st = "fresh" THEN "stale" ELSE st

\* an external call may create a path that is missing
MayCreate(st) == IF st = "absent" THEN {"absent", "fresh"} ELSE {st}

\* shutil.rmtree(tmp_dir, ignore_errors=True): never raises; after an error the
\* tree (or part of it) is still there
Rmtree(st, error) == IF error THEN st ELSE "absent"

\* the log file is left in place
UnlinkSkipped(st) == st

\* log_file_path.unlink(missing_ok=True): the file is gone when the call returns
Unlink(st) == "absent"

\* try: ... except Exception: pass
PropagateSwallowed(ok, next) == next

\* no try/except anywhere in the script: an exception ends the run
Propagate(ok, next) == IF ok THEN next ELSE "crashed"

\* the state of a component that is not running
DriverIdle ==
    /\ entries = {}
    /\ todo = <<>>
    /\ data_locations_path = ""
    /\ data_name = ""
    /\ pc = "idle"
    /\ tmp_dir = "absent"
    /\ log_files = <<>>
    /\ rmtree_error = FALSE
    /\ calls = <<>>
    /\ run_calls = <<>>

UmapIdle ==
    /\ fn = ""
    /\ metadata_series = <<>>
    /\ class_colors = <<>>
    /\ classes = <<>>
    /\ legend_elements = <<>>
    /\ other_classes_exist = FALSE
    /\ color = ""
    /\ scatters = <<>>
    /\ legend = <<>>
    /\ upc = "idle"

ColorsIdle ==
    /\ classes_list = <<>>
    /\ cmap = <<>>
    /\ index = 0
    /\ colors_dict = <<>>
    /\ cpc = "idle"

Step(op, raised) ==
    [op |-> op, entry |-> data_locations_path, raised |-> raised]

DriverInit ==
    /\ entries \in {S \in SUBSET FileNames : Cardinality(S) <= MaxEntries}
    /\ todo = <<>>
    /\ data_locations_path = ""
    /\ data_name = ""
    /\ pc = "iterdir"
    /\ tmp_dir \in {"absent", "stale"}
    /\ log_files \in [{DeriveName(f) : f \in entries} -> {"absent", "stale"}]
    /\ rmtree_error = FALSE
    /\ calls = <<>>
    /\ run_calls = <<>>
    /\ UmapIdle
    /\ ColorsIdle

\* line 37: sorted(locations_dir.iterdir())
IterDir ==
    /\ pc = "iterdir"
    /\ todo' = sorted(entries)
    /\ pc' = "for"
    /\ UNCHANGED <<umap_vars, colors_vars>>
    /\ UNCHANGED <<entries, data_locations_path, data_name, tmp_dir, log_files,
                   rmtree_error, calls, run_calls>>

\* line 37: the loop is exhausted
ForExit ==
    /\ pc = "for"
    /\ todo = <<>>
    /\ pc' = "done"
    /\ UNCHANGED <<umap_vars, colors_vars>>
    /\ UNCHANGED <<entries, todo, data_locations_path, data_name, tmp_dir,
                   log_files, rmtree_error, calls, run_calls>>

\* lines 37-40: next entry, derive its data name
ForNext ==
    /\ pc = "for"
    /\ todo # <<>>
    /\ data_locations_path' = Head(todo)
    /\ todo' = Tail(todo)
    /\ data_name' = DeriveName(Head(todo))
    /\ tmp_dir' = Age(tmp_dir)
    /\ log_files' = [n \in DOMAIN log_files |-> Age(log_files[n])]
    /\ rmtree_error' = FALSE
    /\ pc' = "rmtree"
    /\ UNCHANGED <<umap_vars, colors_vars>>
    /\ UNCHANGED <<entries, calls, run_calls>>

\* line 45
RemoveTmp ==
    /\ pc = "rmtree"
    /\ \E error \in BOOLEAN :
          /\ error => tmp_dir # "absent"
          /\ tmp_dir' = Rmtree(tmp_dir, error)
          /\ rmtree_error' = error
    /\ calls' = Append(calls, Step("rmtree", FALSE))
    /\ pc' = "unlink"
    /\ UNCHANGED <<umap_vars, colors_vars>>
    /\ UNCHANGED <<entries, todo, data_locations_path, data_name, log_files, run_calls>>

\* line 51
RemoveLog ==
    /\ pc = "unlink"
    /\ \E ok \in BOOLEAN :
          /\ ~ok => log_files[data_name] # "absent"
          /\ log_files' = IF ok THEN [log_files EXCEPT ![data_name] = Unlink(@)]
                                ELSE log_files
          /\ calls' = Append(calls, Step("unlink", ~ok))
          /\ pc' = Propagate(ok, "mkdir")
    /\ UNCHANGED <<umap_vars, colors_vars>>
    /\ UNCHANGED <<entries, todo, data_locations_path, data_name, tmp_dir,
                   rmtree_error, run_calls>>

\* line 53
MkdirLogParent ==
    /\ pc = "mkdir"
    /\ \E ok \in BOOLEAN :
          /\ calls' = Append(calls, Step("mkdir", ~ok))
          /\ pc' = Propagate(ok, "DeepProfilerRun")
    /\ UNCHANGED <<umap_vars, colors_vars>>
    /\ UNCHANGED <<entries, todo, data_locations_path, data_name, tmp_dir, log_files,
                   rmtree_error, run_calls>>

\* line 56: the constructor may create the temp directory and open the log
Construct ==
    /\ pc = "DeepProfilerRun"
    /\ \E ok \in BOOLEAN :
          /\ calls' = Append(calls, Step("DeepProfilerRun", ~ok))
          /\ pc' = Propagate(ok, "read_csv")
    /\ tmp_dir' \in MayCreate(tmp_dir)
    /\ \E st \in MayCreate(log_files[data_name]) :
          log_files' = [log_files EXCEPT ![data_name] = st]
    /\ UNCHANGED <<umap_vars, colors_vars>>
    /\ UNCHANGED <<entries, todo, data_locations_path, data_name, rmtree_error, run_calls>>

\* line 59
ReadCsv ==
    /\ pc = "read_csv"
    /\ \E ok \in BOOLEAN :
          /\ calls' = Append(calls, Step("read_csv", ~ok))
          /\ pc' = Propagate(ok, "init_downloader")
    /\ UNCHANGED <<umap_vars, colors_vars>>
    /\ UNCHANGED <<entries, todo, data_locations_path, data_name, tmp_dir, log_files,
                   rmtree_error, run_calls>>

\* lines 62, 65, 68: the three init_* calls
Configure(op, next) ==
    /\ pc = op
    /\ \E ok \in BOOLEAN :
          /\ calls' = Append(calls, Step(op, ~ok))
          /\ pc' = Propagate(ok, next)
    /\ UNCHANGED <<umap_vars, colors_vars>>
    /\ UNCHANGED <<entries, todo, data_locations_path, data_name, tmp_dir, log_files,
                   rmtree_error, run_calls>>

InitDownloader == Configure("init_downloader", "init_preprocessor")

InitPreprocessor == Configure("init_preprocessor", "init_segmentor")

InitSegmentor == Configure("init_segmentor", "copy_DP_files")

\* line 77: copies the DeepProfiler files into the temp directory
CopyDPFiles ==
    /\ pc = "copy_DP_files"
    /\ \E ok \in BOOLEAN :
          /\ calls' = Append(calls, Step("copy_DP_files", ~ok))
          /\ pc' = Propagate(ok, "run_dp_stream")
    /\ tmp_dir' \in MayCreate(tmp_dir)
    /\ UNCHANGED <<umap_vars, colors_vars>>
    /\ UNCHANGED <<entries, todo, data_locations_path, data_name, log_files,
                   rmtree_error, run_calls>>

\* lines 81-92
RunArgs(name) ==
    IF IsTraining(name)
    THEN [entry |-> data_locations_path, data_name |-> name,
          kwargs |-> {"batch_size", "start_batch", "batch_nums", "extra_metadata"},
          batch_size |-> batch_size, start_batch |-> start_batch,
          batch_nums |-> <<batch_num>>, extra_metadata |-> <<"object_outlines">>]
    ELSE [entry |-> data_locations_path, data_name |-> name,
          kwargs |-> {"batch_size", "start_batch", "batch_nums"},
          batch_size |-> batch_size, start_batch |-> start_batch,
          batch_nums |-> <<batch_num>>, extra_metadata |-> <<>>]

RunDpStream ==
    /\ pc = "run_dp_stream"
    /\ run_calls' = Append(run_calls, RunArgs(data_name))
    /\ \E ok \in BOOLEAN :
          /\ calls' = Append(calls, Step("run_dp_stream", ~ok))
          /\ pc' = Propagate(ok, "for")
    /\ tmp_dir' \in MayCreate(tmp_dir) \cup {"absent"}
    /\ \E st \in MayCreate(log_files[data_name]) :
          log_files' = [log_files EXCEPT ![data_name] = st]
    /\ UNCHANGED <<umap_vars, colors_vars>>
    /\ UNCHANGED <<entries, todo, data_locations_path, data_name, rmtree_error>>

DriverNext ==
    \/ IterDir
    \/ ForExit
    \/ ForNext
    \/ RemoveTmp
    \/ RemoveLog
    \/ MkdirLogParent
    \/ Construct
    \/ ReadCsv
    \/ InitDownloader
    \/ InitPreprocessor
    \/ InitSegmentor
    \/ CopyDPFiles
    \/ RunDpStream

DriverSpec == DriverInit /\ [][DriverNext]_vars

(***************************************************************************)
(* show_1D_umap, show_2D_umap, show_3D_umap                                *)
(***************************************************************************)
Functions == {"show_1D_umap", "show_2D_umap", "show_3D_umap"}

\* labels a metadata column may hold; one class is itself named "Other"
Labels == {"a", "b", "Other"}

HexColors == {"#ff0000", "#0000ff", "#808080"}

\* every dict from some of the labels to a colour
ClassColorMaps == UNION {[K -> HexColors] : K \in SUBSET Labels}

\* the non-empty label columns of at most MaxPoints rows
MetadataColumns == UNION {[1..n -> Labels] : n \in 1..MaxPoints}

\* Series.tolist(): no removal of duplicates
unique_skipped(column) == column

\* Series.drop_duplicates(keep="last"): the distinct values in order of last appearance
RECURSIVE unique_by_last(_)
unique_by_last(column) ==
    IF column = <<>> THEN <<>>
    ELSE LET last == column[Len(column)]
         IN  unique_by_last(SelectSeq(SubSeq(column, 1, Len(column) - 1),
                                      LAMBDA v : v # last)) \o <<last>>

\* Series.unique().tolist(): the distinct values in order of first appearance
RECURSIVE unique(_)
unique(column) ==
    IF column = <<>> THEN <<>>
    ELSE <<Head(column)>> \o unique(SelectSeq(Tail(column), LAMBDA v : v # Head(column)))

\* embedding.loc[embedding[metadata_series.name] == metadata_class]: the rows
Rows(metadata_class) ==
    {i \in 1..Len(metadata_series) : metadata_series[i] = metadata_class}

\* metadata_class in class_colors.keys()
IsColored(metadata_class) == metadata_class \in DOMAIN class_colors

\* the colour of the classes that are not to be coloured
Gray == "#808080"

\* Line2D([0], [0], marker="o", color="w", label=..., markerfacecolor=..., markersize=10)
Handle(label, markerfacecolor) ==
    [label |-> label, markerfacecolor |-> markerfacecolor]

\* number of coordinate vectors given to ax.scatter
Coordinates(f) == IF f = "show_3D_umap" THEN <<"x", "y", "z">> ELSE <<"x", "y">>

\* the "Other" handle appended unconditionally
OtherAlways(flag) == TRUE

\* if other_classes_exist:
AddsOther(flag) == flag

UmapInit ==
    /\ fn \in Functions
    /\ metadata_series \in MetadataColumns
    /\ class_colors \in ClassColorMaps
    /\ classes = <<>>
    /\ legend_elements = <<>>
    /\ other_classes_exist = FALSE
    /\ color = "unbound"
    /\ scatters = <<>>
    /\ legend = <<>>
    /\ upc = "embed"
    /\ DriverIdle
    /\ ColorsIdle

\* embedding, figure, empty legend, flag, and the list the loop iterates over
Setup ==
    /\ upc = "embed"
    /\ legend_elements' = <<>>
    /\ other_classes_exist' = FALSE
    /\ classes' = unique(metadata_series)
    /\ upc' = "loop"
    /\ UNCHANGED <<fn, metadata_series, class_colors, color, scatters, legend>>
    /\ UNCHANGED <<driver_vars, colors_vars>>

Scatter(metadata_class, c) ==
    [rows |-> Rows(metadata_class), coordinates |-> Coordinates(fn), c |-> c]

\* one iteration for a class that is a key of class_colors
LoopColored ==
    /\ upc = "loop"
    /\ classes # <<>>
    /\ IsColored(Head(classes))
    /\ color' = class_colors[Head(classes)]
    /\ legend_elements' = Append(legend_elements, Handle(Head(classes), color'))
    /\ scatters' = Append(scatters, Scatter(Head(classes), color'))
    /\ classes' = Tail(classes)
    /\ UNCHANGED <<fn, metadata_series, class_colors, other_classes_exist, legend, upc>>
    /\ UNCHANGED <<driver_vars, colors_vars>>

\* one iteration for a class that is not
LoopOther ==
    /\ upc = "loop"
    /\ classes # <<>>
    /\ ~IsColored(Head(classes))
    /\ other_classes_exist' = TRUE
    /\ color' = Gray
    /\ scatters' = Append(scatters, Scatter(Head(classes), color'))
    /\ classes' = Tail(classes)
    /\ UNCHANGED <<fn, metadata_series, class_colors, legend_elements, legend, upc>>
    /\ UNCHANGED <<driver_vars, colors_vars>>

LoopExit ==
    /\ upc = "loop"
    /\ classes = <<>>
    /\ upc' = "other"
    /\ UNCHANGED <<fn, metadata_series, class_colors, classes, legend_elements,
                   other_classes_exist, color, scatters, legend>>
    /\ UNCHANGED <<driver_vars, colors_vars>>

\* add "other" to legend if there are "other" classes: the handle takes the
\* value the variable color has after the loop
AppendOther ==
    /\ upc = "other"
    /\ AddsOther(other_classes_exist)
    /\ legend_elements' = Append(legend_elements, Handle("Other", color))
    /\ upc' = "legend"
    /\ UNCHANGED <<fn, metadata_series, class_colors, classes, other_classes_exist,
                   color, scatters, legend>>
    /\ UNCHANGED <<driver_vars, colors_vars>>

SkipOther ==
    /\ upc = "other"
    /\ ~AddsOther(other_classes_exist)
    /\ upc' = "legend"
    /\ UNCHANGED <<fn, metadata_series, class_colors, classes, legend_elements,
                   other_classes_exist, color, scatters, legend>>
    /\ UNCHANGED <<driver_vars, colors_vars>>

\* plt.legend(handles=legend_elements, ...)
ShowLegend ==
    /\ upc = "legend"
    /\ legend' = legend_elements
    /\ upc' = "done"
    /\ UNCHANGED <<fn, metadata_series, class_colors, classes, legend_elements,
                   other_classes_exist, color, scatters>>
    /\ UNCHANGED <<driver_vars, colors_vars>>

UmapNext ==
    \/ Setup
    \/ LoopColored
    \/ LoopOther
    \/ LoopExit
    \/ AppendOther
    \/ SkipOther
    \/ ShowLegend

UmapSpec == UmapInit /\ [][UmapNext]_vars

(***************************************************************************)
(* get_class_colors                                                        *)
(***************************************************************************)
ClassNames == {"a", "b", "c"}

\* RGB colours a palette may hold; a channel is written in half steps of the
\* 8-bit scale, so the channel value v is n / 510 and v * 255 is n / 2
PaletteColors == { <<510, 0, 0>>, <<0, 0, 510>>, <<0, 255, 0>>, <<0, 256, 0>> }

HexDigits == "0123456789abcdef"

\* format(n, "02x") for n in 0..255
Hex2(n) ==
    SubSeq(HexDigits, (n \div 16) + 1, (n \div 16) + 1)
        \o SubSeq(HexDigits, (n % 16) + 1, (n % 16) + 1)

\* round(val * 255): Python rounds a tie to the even neighbour
Round255(n) ==
    IF n % 2 = 0 THEN n \div 2
    ELSE IF ((n - 1) \div 2) % 2 = 0 THEN (n - 1) \div 2 ELSE (n + 1) \div 2

\* matplotlib.colors.rgb2hex
rgb2hex(c) == "#" \o Hex2(Round255(c[1])) \o Hex2(Round255(c[2])) \o Hex2(Round255(c[3]))

\* cmap[0]
PickFirst(palette_colors, i) == palette_colors[1]

\* cmap[index], index counted from 0
Pick(palette_colors, i) == palette_colors[i + 1]

ColorsInit ==
    /\ classes_list \in UNION {[1..n -> ClassNames] : n \in 0..MaxClasses}
    /\ cmap = <<>>
    /\ index = 0
    /\ colors_dict = <<>>
    /\ cpc = "palette"
    /\ DriverIdle
    /\ UmapIdle

\* class_colors = {}; cmap = sns.color_palette(palette, len(classes_list))
ColorPalette ==
    /\ cpc = "palette"
    /\ cmap' \in [1..Len(classes_list) -> PaletteColors]
    /\ colors_dict' = <<>>
    /\ index' = 0
    /\ cpc' = "loop"
    /\ UNCHANGED classes_list
    /\ UNCHANGED <<driver_vars, umap_vars>>

\* class_colors[class_name] = rgb2hex(cmap[index])
Assign ==
    /\ cpc = "loop"
    /\ index < Len(classes_list)
    /\ LET class_name == classes_list[index + 1]
           hex == rgb2hex(Pick(cmap, index))
       IN  colors_dict' =
              [k \in DOMAIN colors_dict \cup {class_name} |->
                  IF k = class_name THEN hex ELSE colors_dict[k]]
    /\ index' = index + 1
    /\ UNCHANGED <<classes_list, cmap, cpc>>
    /\ UNCHANGED <<driver_vars, umap_vars>>

\* return class_colors
Return ==
    /\ cpc = "loop"
    /\ index = Len(classes_list)
    /\ cpc' = "done"
    /\ UNCHANGED <<classes_list, cmap, index, colors_dict>>
    /\ UNCHANGED <<driver_vars, umap_vars>>

ColorsNext ==
    \/ ColorPalette
    \/ Assign
    \/ Return

ColorsSpec == ColorsInit /\ [][ColorsNext]_vars

(***************************************************************************)
(* Claims about the extraction driver                                      *)
(***************************************************************************)
Suffix == "_locations.tsv"

Replacement == "_data"

EndsWith(s, t) == Len(s) >= Len(t) /\ SubSeq(s, Len(s) - Len(t) + 1, Len(s)) = t

Occurrences(s, t) == {i \in 1..(Len(s) - Len(t) + 1) : SubSeq(s, i, i + Len(t) - 1) = t}

Contains(s, t) == Occurrences(s, t) # {}

StripSuffix(s) == IF EndsWith(s, Suffix) THEN SubSeq(s, 1, Len(s) - Len(Suffix)) ELSE s

Derived == data_locations_path # ""

RunsOf(e) == {i \in 1..Len(run_calls) : run_calls[i].entry = e}

\* the file names in ascending order, written out
AscendingNames ==
    << ".gitkeep",
       "negative_control_locations.tsv",
       "positive_control_locations.tsv",
       "training_locations.tsv",
       "training_locations.tsv.bak",
       "x_locations.tsv_locations.tsv" >>

Rank(e) == CHOOSE i \in 1..Len(AscendingNames) : AscendingNames[i] = e

StepOrder ==
    << "rmtree", "unlink", "mkdir", "DeepProfilerRun", "read_csv", "init_downloader",
       "init_preprocessor", "init_segmentor", "copy_DP_files", "run_dp_stream" >>

StepIndex(op) == CHOOSE i \in 1..Len(StepOrder) : StepOrder[i] = op

\* the states from the construction of the pipeline object to the start of run_dp_stream
ConfiguringPcs ==
    { "DeepProfilerRun", "read_csv", "init_downloader", "init_preprocessor",
      "init_segmentor", "copy_DP_files", "run_dp_stream" }

PipelineOps ==
    { "DeepProfilerRun", "init_downloader", "init_preprocessor", "init_segmentor",
      "copy_DP_files", "run_dp_stream" }

\* C4: run_dp_stream gets extra_metadata=["object_outlines"] exactly for the entries
\* whose derived data name is "training_data", and in both cases batch_size=3,
\* start_batch=0, batch_nums=[0].
C4_ExtraMetadataIffTraining ==
    \A i \in 1..Len(run_calls) :
        LET r == run_calls[i]
        IN  /\ ("extra_metadata" \in r.kwargs) <=> (r.data_name = "training_data")
            /\ ("extra_metadata" \in r.kwargs) => r.extra_metadata = <<"object_outlines">>
            /\ r.kwargs \ {"extra_metadata"} = {"batch_size", "start_batch", "batch_nums"}
            /\ r.batch_size = 3
            /\ r.start_batch = 0
            /\ r.batch_nums = <<0>>

\* a run that called run_dp_stream both with and without extra_metadata
C4_Witness ==
    /\ \E i \in 1..Len(run_calls) : "extra_metadata" \in run_calls[i].kwargs
    /\ \E i \in 1..Len(run_calls) : "extra_metadata" \notin run_calls[i].kwargs

\* C5 as stated: the derived name is the entry's name with the suffix
\* "_locations.tsv" stripped from its end and "_data" appended, so it ends in
\* "_data" and contains no "_locations.tsv".
C5_Original ==
    Derived =>
        /\ data_name = StripSuffix(data_locations_path) \o Replacement
        /\ EndsWith(data_name, Replacement)
        /\ ~Contains(data_name, Suffix)

\* C5 amended: the derived name is the entry's name with every occurrence of
\* "_locations.tsv" replaced by "_data": it contains no "_locations.tsv", it is
\* shorter by 9 characters per occurrence, a name without an occurrence is kept
\* unchanged, and a name whose only occurrence is at its end has it stripped and
\* "_data" appended.
C5_DerivedName ==
    Derived =>
        LET e == data_locations_path
        IN  /\ ~Contains(data_name, Suffix)
            /\ Len(data_name) =
                 Len(e) - (Len(Suffix) - Len(Replacement)) * Cardinality(Occurrences(e, Suffix))
            /\ ~Contains(e, Suffix) => data_name = e
            /\ (EndsWith(e, Suffix) /\ Cardinality(Occurrences(e, Suffix)) = 1)
                  => /\ data_name = StripSuffix(e) \o Replacement
                     /\ EndsWith(data_name, Replacement)

\* an entry with two occurrences of the suffix has been given its name
C5_Witness ==
    /\ pc = "rmtree"
    /\ data_locations_path = "x_locations.tsv_locations.tsv"
    /\ data_name = "x_data_data"

\* C6 as stated: from the construction of the pipeline object to the start of
\* run_dp_stream neither a temp directory nor a log file left by earlier work
\* exists, even when the removal of the temp directory met an error.
C6_Original ==
    pc \in ConfiguringPcs => tmp_dir # "stale" /\ log_files[data_name] # "stale"

\* C6 amended: in those states no log file left by earlier work exists, and a
\* temp directory left by earlier work exists only if its removal met an error
\* (which rmtree ignores).
C6_CleanBeforeRun ==
    pc \in ConfiguringPcs =>
        /\ log_files[data_name] # "stale"
        /\ tmp_dir = "stale" => rmtree_error

\* a later iteration is about to run on a temp directory and a log of its own
C6_Witness ==
    /\ pc = "run_dp_stream"
    /\ Len(run_calls) >= 1
    /\ ~rmtree_error
    /\ tmp_dir = "fresh"
    /\ log_files[data_name] = "fresh"

\* C8: entries are processed one at a time in ascending order, each with its steps
\* in the fixed order; run_dp_stream is called at most once per entry, after the
\* configuration calls of that entry returned, and exactly once per entry when the
\* loop completes; the next entry starts only after run_dp_stream returned.
C8_StepOrder ==
    /\ Len(calls) > 0 =>
          /\ calls[1].op = "rmtree"
          /\ \A e \in entries : Rank(calls[1].entry) <= Rank(e)
    /\ \A i \in 1..(Len(calls) - 1) :
          LET a == calls[i]
              b == calls[i + 1]
          IN  /\ ~a.raised
              /\ \/ a.entry = b.entry /\ StepIndex(b.op) = StepIndex(a.op) + 1
                 \/ /\ a.op = "run_dp_stream"
                    /\ b.op = "rmtree"
                    /\ Rank(a.entry) < Rank(b.entry)
                    /\ ~\E e \in entries : Rank(a.entry) < Rank(e) /\ Rank(e) < Rank(b.entry)
    /\ Len(run_calls) = Cardinality({i \in 1..Len(calls) : calls[i].op = "run_dp_stream"})
    /\ \A e \in entries : Cardinality(RunsOf(e)) <= 1
    /\ pc = "done" => \A e \in entries : Cardinality(RunsOf(e)) = 1

\* the loop completed over three entries
C8_Witness == pc = "done" /\ Len(run_calls) >= 3

\* C9: a failed call is the last step the driver ever executes: it is not
\* retried, nothing follows it for that dataset or a later one, and the datasets
\* completed before it are not touched again.
C9_FailureTerminates ==
    /\ \A i \in 1..Len(calls) : calls[i].raised => i = Len(calls) /\ pc = "crashed"
    /\ \A i, j \in 1..Len(calls) :
          (calls[i].entry = calls[j].entry /\ calls[i].op = calls[j].op) => i = j
    /\ pc = "crashed" => Len(calls) > 0 /\ calls[Len(calls)].raised

\* a pipeline call failed after an earlier dataset had completed
C9_Witness ==
    /\ pc = "crashed"
    /\ Len(run_calls) >= 1
    /\ calls[Len(calls)].op \in PipelineOps
    /\ calls[Len(calls)].entry # run_calls[1].entry

(***************************************************************************)
(* Claims about show_1D_umap, show_2D_umap, show_3D_umap                   *)
(***************************************************************************)
\* rows whose label is not a key of class_colors
Unmapped == {i \in 1..Len(metadata_series) : metadata_series[i] \notin DOMAIN class_colors}

\* labels that occur in the metadata and are keys of class_colors
MappedLabels ==
    {metadata_series[i] : i \in 1..Len(metadata_series)} \cap DOMAIN class_colors

\* legend entries whose label reads "Other"
OtherEntries == {i \in 1..Len(legend) : legend[i].label = "Other"}

FirstRow(label) ==
    CHOOSE i \in 1..Len(metadata_series) :
        /\ metadata_series[i] = label
        /\ \A j \in 1..(i - 1) : metadata_series[j] # label

\* entries are the handles of distinct mapped labels, with their colours, in
\* order of first occurrence
LoopEntries(handles) ==
    /\ \A i \in 1..Len(handles) :
          /\ handles[i].label \in MappedLabels
          /\ handles[i].markerfacecolor = class_colors[handles[i].label]
    /\ \A i, j \in 1..Len(handles) :
          i < j => FirstRow(handles[i].label) < FirstRow(handles[j].label)

\* C1 as stated: the legend holds an entry labelled "Other" iff some label of the
\* metadata is not a key of class_colors, and at most one such entry.
C1_Original ==
    upc = "done" =>
        /\ (OtherEntries # {}) <=> (Unmapped # {})
        /\ Cardinality(OtherEntries) <= 1

\* C1 amended: the legend holds one entry labelled "Other" for the unmapped labels
\* (iff there is one) and one more iff a class named "Other" is itself a key of
\* class_colors and occurs in the metadata.
C1_OtherEntries ==
    upc = "done" =>
        Cardinality(OtherEntries) =
            (IF Unmapped # {} THEN 1 ELSE 0) + (IF "Other" \in MappedLabels THEN 1 ELSE 0)

\* a legend with two entries labelled "Other"
C1_Witness ==
    /\ upc = "done"
    /\ Unmapped # {}
    /\ "Other" \in MappedLabels
    /\ Cardinality(OtherEntries) = 2

C3_OtherIsGray ==
    (upc = "done" /\ other_classes_exist) =>
        legend[Len(legend)].markerfacecolor = "#808080"

\* C10 as stated: the entries not labelled "Other" are, in order of first
\* occurrence and with their colours, the labels that occur and are keys of
\* class_colors, and an entry labelled "Other" is always last.
C10_Original ==
    upc = "done" =>
        LET named == SelectSeq(legend, LAMBDA h : h.label # "Other")
        IN  /\ Len(named) = Cardinality(MappedLabels)
            /\ LoopEntries(named)
            /\ \A i \in OtherEntries : i = Len(legend)

\* C10 amended: the entries before the one appended for the unmapped labels are,
\* in order of first occurrence and with their colours, the labels that occur
\* and are keys of class_colors (a class named "Other" among them), and the entry
\* appended for the unmapped labels, when there is one, is last and labelled "Other".
C10_LegendEntries ==
    upc = "done" =>
        LET extra == IF Unmapped # {} THEN 1 ELSE 0
        IN  /\ Len(legend) = Cardinality(MappedLabels) + extra
            /\ LoopEntries(SubSeq(legend, 1, Len(legend) - extra))
            /\ extra = 1 => legend[Len(legend)].label = "Other"

\* two mapped classes and, between them, an unmapped one
C10_Witness ==
    /\ upc = "done"
    /\ Len(legend) = 3
    /\ Unmapped = {2}

(***************************************************************************)
(* Claims about get_class_colors                                           *)
(***************************************************************************)
Repeats(seq) == \E i, j \in 1..Len(seq) : i # j /\ seq[i] = seq[j]

Names == {classes_list[i] : i \in 1..Len(classes_list)}

LastPosition(name) ==
    CHOOSE i \in 1..Len(classes_list) :
        /\ classes_list[i] = name
        /\ \A j \in (i + 1)..Len(classes_list) : classes_list[j] # name

\* the palette's colours are pairwise distinct as hex strings
DistinctPalette ==
    \A i, j \in 1..Len(cmap) : i # j => rgb2hex(cmap[i]) # rgb2hex(cmap[j])

Injective(f) == \A a, b \in DOMAIN f : a # b => f[a] # f[b]

\* C7 as stated: with N names and N pairwise distinct colours the dict has
\* exactly N entries and no two names share a colour, also when a name repeats.
C7_Original ==
    (cpc = "done" /\ DistinctPalette) =>
        /\ Cardinality(DOMAIN colors_dict) = Len(classes_list)
        /\ Injective(colors_dict)

\* C7 amended: the dict has one entry per distinct name (N entries when no name
\* repeats), a name has the hex colour of its last position in the list, every
\* value is "#" and six hex digits, and with colours pairwise distinct as hex
\* strings no two names share a colour.
C7_ClassColors ==
    cpc = "done" =>
        /\ DOMAIN colors_dict = Names
        /\ ~Repeats(classes_list) => Cardinality(DOMAIN colors_dict) = Len(classes_list)
        /\ Repeats(classes_list) => Cardinality(DOMAIN colors_dict) < Len(classes_list)
        /\ \A k \in DOMAIN colors_dict :
              /\ colors_dict[k] = rgb2hex(cmap[LastPosition(k)])
              /\ Len(colors_dict[k]) = 7
              /\ SubSeq(colors_dict[k], 1, 1) = "#"
        /\ DistinctPalette => Injective(colors_dict)

\* a list of three names with a repeated one, on a palette of distinct colours
C7_Witness ==
    /\ cpc = "done"
    /\ Len(classes_list) = 3
    /\ Repeats(classes_list)
    /\ DistinctPalette
    /\ Cardinality(DOMAIN colors_dict) = 2

====
